---- MODULE Spec2Model ----
(***************************************************************************)
(* Model of the pointer-permutation test suite: the generators of randomly *)
(* permutated linked lists (external_shuffle_generator, XMem_list_         *)
(* generator), the cycle/stride analysis of testGenerator and its 20-line  *)
(* histogram, and main's loop of repeated runs.                            *)
(*                                                                         *)
(* A pointer &list[k] is modelled by the index k, so that the difference   *)
(* of the pointers stored in slot p and of slot p is list[p] - p.          *)
(***************************************************************************)
EXTENDS Integers, Sequences, FiniteSets

\* ------------------------------------------------------------------ bounds
\* largest list handed out by the opaque X-Mem generator
MaxN == 4
\* largest list built by the shuffle generator
MaxShuffleN == 6
\* largest list for which main's loop of repeated runs is followed
MaxLoopN == 3
\* number of calls of testGenerator in main's loop
MaxRuns == 2

\* --------------------------------------------------------------- constants
\* int hist[20], a[20], b[20]
NumBuckets == 20
\* int dots = 40 * hist[i] / maxAmount
BarWidth == 40
\* 100.0 * cyclelength
Percent == 100
\* content of a slot of new uint64_t[N] that was never written
NoPtr == -1
\* std::shuffle(traversal_order + 1, ...): first shuffled position
ShuffleFirst == 1

VARIABLES
    gen,              \* template argument T: "shuffle" or "xmem"
    N,                \* number of elements
    printHist,        \* testGenerator's second argument
    pc,               \* position in testGenerator / getlist
    run,              \* number of the current call from main's loop
    traversal_order,  \* getlist: int[N + 1]
    i,                \* the loop counter in use
    list,             \* permutated_list_generator::list
    strides,          \* int[2 * N]
    visited,          \* bool[N]
    p,                \* walk position (index of *p)
    cyclelength,
    stride,           \* the stride of the last hop
    covered,          \* <<100 * cyclelength, N>>, the quotient's operands
    a, b, hist,       \* bounds and amounts of the histogram lines
    maxAmount,
    dots,             \* bar length per histogram line
    prev,             \* list and results of the previous call (history)
    sum               \* main: sum of the coverages, as numerators over N

vars == <<gen, N, printHist, pc, run, traversal_order, i, list, strides,
          visited, p, cyclelength, stride, covered, a, b, hist, maxAmount,
          dots, prev, sum>>

\* ------------------------------------------------------------ pure helpers
RECURSIVE SumRange(_, _, _)
\* for(j = lo; j <= hi; j++) acc += f[j]
SumRange(f, lo, hi) == IF lo > hi THEN 0 ELSE f[lo] + SumRange(f, lo + 1, hi)

\* (int) conversion of the quotient n / d, d > 0: truncation towards zero
TruncDiv(n, d) == IF n >= 0 THEN n \div d ELSE -((-n) \div d)

\* a[i] = (int) (-N + (2.0*N / 20) * i): the double 2.0*N/20 is N/10. For
\* N < 82, which covers the list sizes of this model, the rounded double
\* product and sum have the integer part of the exact value
\* (-10*N + N*i) / 10; from N = 82 on (i = 15: 40 for 41) rounding can move
\* a bound between two lines by one, never the bounds at i = 0 and i = 20.
BucketLo(n, k) == TruncDiv((-10) * n + n * k, 10)

\* a mutation: upper bound from a truncated bucket width
BucketHiWidth(n, k) == BucketLo(n, k) + TruncDiv(2 * n, NumBuckets)

\* b[i] = (int) (-N + (2.0*N / 20) * (i+1))
BucketHi(n, k) == BucketLo(n, k + 1)

\* a mutation: difference of the addresses in bytes, not in elements
StrideBytes(l, q) == 8 * (l[q] - q)

\* int stride: the pointer stored in *p minus p, in elements
Stride(l, q) == l[q] - q

\* strides[ N + stride ]: the slot of a stride
StrideSlot(n, s) == n + s

\* a mutation: the slot is set instead of counted up
SetSlot(s, k) == [s EXCEPT ![k] = 1]

\* strides[ ... ] ++
IncSlot(s, k) == [s EXCEPT ![k] = @ + 1]

\* a mutation: loop "until we return to the initial element"
LoopUntilStart(v, q) == q # 0

\* while( ! visited[ p - list ] )
LoopAgain(v, q) == ~ v[q]

\* a mutation: the flags of the previous call are kept
KeepVisited(n) == IF visited = <<>> THEN [k \in 0 .. n - 1 |-> FALSE] ELSE visited

\* for(i = 0; i < N; i++) visited[i] = false
ResetVisited(n) == [k \in 0 .. n - 1 |-> FALSE]

\* a mutation: the shuffle starts at position 0
ShuffleFromZero == ShuffleFirst - 1

\* first position of the shuffled range
ShuffleBegin == ShuffleFirst

\* a mutation: the shuffle includes position N - 1
ShuffleEndIncl(n) == n

\* std::shuffle(..., traversal_order + (N - 1), gen): end of the range
ShuffleEnd(n) == n - 1

\* std::swap of two positions of an array
Swap(t, x, y) == [t EXCEPT ![x] = t[y], ![y] = t[x]]

\* ------------------------------------------------------------------- Init
Init ==
    /\ \/ gen = "xmem" /\ N \in 1 .. MaxN
       \/ gen = "shuffle" /\ N \in 1 .. MaxShuffleN
    /\ printHist \in BOOLEAN
    /\ pc = "start"
    /\ run = 1
    /\ traversal_order = <<>>
    /\ i = 0
    /\ list = <<>>
    /\ strides = <<>>
    /\ visited = <<>>
    /\ p = 0
    /\ cyclelength = 0
    /\ stride = 0
    /\ covered = <<0, N>>
    /\ a = <<>>
    /\ b = <<>>
    /\ hist = <<>>
    /\ maxAmount = 0
    /\ dots = <<>>
    /\ prev = <<>>
    /\ sum = 0

\* ---------------------------------------------------------------- actions
\* T gen(N); strides = new int[2*N], zeroed
Construct ==
    /\ pc = "start"
    /\ list' = [k \in 0 .. N - 1 |-> NoPtr]
    /\ strides' = [k \in 0 .. 2 * N - 1 |-> 0]
    /\ i' = 2 * N
    /\ pc' = "getlist"
    /\ UNCHANGED <<gen, N, printHist, run, traversal_order, visited, p,
                   cyclelength, stride, covered, a, b, hist, maxAmount,
                   dots, prev, sum>>

\* XMem_list_generator::getlist: xmem::build_random_pointer_permutation is
\* a library routine; all that is known of its result is that every slot
\* holds the address of a slot of the same array
XMemGetlist ==
    /\ pc = "getlist"
    /\ gen = "xmem"
    /\ list' \in [0 .. N - 1 -> 0 .. N - 1]
    /\ pc' = "prep"
    /\ UNCHANGED <<gen, N, printHist, run, traversal_order, i, strides,
                   visited, p, cyclelength, stride, covered, a, b, hist,
                   maxAmount, dots, prev, sum>>

\* external_shuffle_generator::getlist: 0, 1, ..., N-1 and back to 0
BuildOrder ==
    /\ pc = "getlist"
    /\ gen = "shuffle"
    /\ traversal_order' = [k \in 0 .. N |-> IF k < N THEN k ELSE 0]
    /\ i' = ShuffleBegin + 1
    /\ pc' = "shuffle"
    /\ UNCHANGED <<gen, N, printHist, run, list, strides, visited, p,
                   cyclelength, stride, covered, a, b, hist, maxAmount,
                   dots, prev, sum>>

\* std::shuffle on a range with first > last (N = 1): undefined. A library
\* that loops "for (i = first + 1; i != last; ++i)" runs off the array and
\* the process dies; one that tests "last - first > 1" returns at once.
ShuffleInvalid ==
    /\ pc = "shuffle"
    /\ ShuffleBegin > ShuffleEnd(N)
    /\ \/ pc' = "crashed"
       \/ pc' = "fill"
    /\ i' = 0
    /\ UNCHANGED <<gen, N, printHist, run, traversal_order, list, strides,
                   visited, p, cyclelength, stride, covered, a, b, hist,
                   maxAmount, dots, prev, sum>>

\* std::shuffle: one step, swapping position i with a random position of
\* first .. i
ShuffleStep ==
    /\ pc = "shuffle"
    /\ ShuffleBegin < ShuffleEnd(N)
    /\ i < ShuffleEnd(N)
    /\ \E r \in ShuffleBegin .. i :
          traversal_order' = Swap(traversal_order, i, r)
    /\ i' = i + 1
    /\ UNCHANGED <<gen, N, printHist, pc, run, list, strides, visited, p,
                   cyclelength, stride, covered, a, b, hist, maxAmount,
                   dots, prev, sum>>

\* std::shuffle returns: empty range, or all positions done
ShuffleReturn ==
    /\ pc = "shuffle"
    /\ \/ ShuffleBegin = ShuffleEnd(N)
       \/ ShuffleBegin < ShuffleEnd(N) /\ i >= ShuffleEnd(N)
    /\ i' = 0
    /\ pc' = "fill"
    /\ UNCHANGED <<gen, N, printHist, run, traversal_order, list, strides,
                   visited, p, cyclelength, stride, covered, a, b, hist,
                   maxAmount, dots, prev, sum>>

\* list[ traversal_order[i] ] = &list[ traversal_order[i+1] ]; after the
\* last one, delete traversal_order and return list
FillStep ==
    /\ pc = "fill"
    /\ i < N
    /\ list' = [list EXCEPT ![traversal_order[i]] = traversal_order[i + 1]]
    /\ i' = i + 1
    /\ IF i + 1 = N
          THEN pc' = "prep" /\ traversal_order' = <<>>
          ELSE pc' = "fill" /\ traversal_order' = traversal_order
    /\ UNCHANGED <<gen, N, printHist, run, strides, visited, p, cyclelength,
                   stride, covered, a, b, hist, maxAmount, dots, prev, sum>>

\* p = list; cyclelength = 0; visited = new bool[N], all false
Prep ==
    /\ pc = "prep"
    /\ p' = 0
    /\ cyclelength' = 0
    /\ visited' = ResetVisited(N)
    /\ i' = N
    /\ pc' = "walk"
    /\ UNCHANGED <<gen, N, printHist, run, traversal_order, list, strides,
                   stride, covered, a, b, hist, maxAmount, dots, prev, sum>>

\* one pass of the do-while loop
WalkStep ==
    /\ pc = "walk"
    /\ visited' = [visited EXCEPT ![p] = TRUE]
    /\ cyclelength' = cyclelength + 1
    /\ stride' = Stride(list, p)
    /\ strides' = IncSlot(strides, StrideSlot(N, stride'))
    /\ p' = list[p]
    /\ pc' = IF LoopAgain(visited', p') THEN "walk" ELSE "report"
    /\ UNCHANGED <<gen, N, printHist, run, traversal_order, i, list,
                   covered, a, b, hist, maxAmount, dots, prev, sum>>

\* float covered = (100.0 * cyclelength) / N, kept as the operands of the
\* quotient: below 2^24 elements the float is 100.0 exactly if
\* 100 * cyclelength = 100 * N
Report ==
    /\ pc = "report"
    /\ covered' = <<Percent * cyclelength, N>>
    /\ IF printHist
          THEN /\ pc' = "hist"
               /\ i' = 0
               /\ a' = [k \in 0 .. NumBuckets - 1 |-> 0]
               /\ b' = [k \in 0 .. NumBuckets - 1 |-> 0]
               /\ hist' = [k \in 0 .. NumBuckets - 1 |-> 0]
               /\ maxAmount' = 0
          ELSE /\ pc' = "done"
               /\ UNCHANGED <<i, a, b, hist, maxAmount>>
    /\ UNCHANGED <<gen, N, printHist, run, traversal_order, list, strides,
                   visited, p, cyclelength, stride, dots, prev, sum>>

\* one line of the tidy histogram: bounds, amount, maximum
HistBucket ==
    /\ pc = "hist"
    /\ i < NumBuckets
    /\ a' = [a EXCEPT ![i] = BucketLo(N, i)]
    /\ b' = [b EXCEPT ![i] = BucketHi(N, i)]
    /\ hist' = [hist EXCEPT ![i] = SumRange(strides, a'[i] + N, b'[i] + N - 1)]
    /\ maxAmount' = IF hist'[i] > maxAmount THEN hist'[i] ELSE maxAmount
    /\ i' = i + 1
    /\ pc' = IF i + 1 = NumBuckets THEN "bars" ELSE "hist"
    /\ UNCHANGED <<gen, N, printHist, run, traversal_order, list, strides,
                   visited, p, cyclelength, stride, covered, dots, prev, sum>>

\* the bars: dots = 40 * hist[i] / maxAmount; an integer division by zero
\* ends the process
Bars ==
    /\ pc = "bars"
    /\ IF maxAmount = 0
          THEN pc' = "crashed" /\ dots' = dots
          ELSE /\ dots' = [k \in 0 .. NumBuckets - 1
                              |-> (BarWidth * hist[k]) \div maxAmount]
               /\ pc' = "done"
    /\ i' = NumBuckets
    /\ UNCHANGED <<gen, N, printHist, run, traversal_order, list, strides,
                   visited, p, cyclelength, stride, covered, a, b, hist,
                   maxAmount, prev, sum>>

\* main: for(i = 0; i < 100; i++) sum += testGenerator<T>(N, false);
\* the call returns (its buffers are released) and the next one begins
NextRun ==
    /\ pc = "done"
    /\ ~ printHist
    /\ N <= MaxLoopN
    /\ run < MaxRuns
    /\ sum' = sum + covered[1]
    /\ prev' = [list |-> list, cyclelength |-> cyclelength,
                covered |-> covered, strides |-> strides]
    /\ run' = run + 1
    /\ pc' = "start"
    /\ UNCHANGED <<gen, N, printHist, traversal_order, i, list, strides,
                   visited, p, cyclelength, stride, covered, a, b, hist,
                   maxAmount, dots>>

Next ==
    \/ Construct
    \/ XMemGetlist
    \/ BuildOrder
    \/ ShuffleInvalid
    \/ ShuffleStep
    \/ ShuffleReturn
    \/ FillStep
    \/ Prep
    \/ WalkStep
    \/ Report
    \/ HistBucket
    \/ Bars
    \/ NextRun

Spec == Init /\ [][Next]_vars

\* ------------------------------------------------------------- vocabulary
RECURSIVE Iter(_, _, _)
\* the index reached from x by k hops along l
Iter(l, x, k) == IF k = 0 THEN x ELSE Iter(l, l[x], k - 1)

\* the graph i -> l[i] is one cycle through all n indices
IsHamiltonian(l, n) ==
    /\ {Iter(l, 0, k) : k \in 0 .. n - 1} = 0 .. n - 1
    /\ Iter(l, 0, n) = 0

\* l is a Hamiltonian cycle in which one entry k was overwritten by k
IsCorrupted(l, n) ==
    \E k \in 0 .. n - 1 : \E v \in (0 .. n - 1) \ {k} :
        /\ l[k] = k
        /\ IsHamiltonian([l EXCEPT ![k] = v], n)

\* number of indices on the chain that starts at index 0
ReachSize(l, n) == Cardinality({Iter(l, 0, k) : k \in 0 .. n})

\* the quotient (100.0 * cyclelength) / N is 100
Is100(c) == c[1] = Percent * c[2]

\* the list has been returned by getlist
Returned == pc \in {"prep", "walk", "report", "hist", "bars", "done"}
\* the do-while loop has been left
AfterWalk == pc \in {"report", "hist", "bars", "done"}
\* covered has been computed
AfterReport == pc \in {"hist", "bars", "done"}

\* ----------------------------------------------------------------- claims
\* C1: for N >= 3 and every outcome of the shuffle, the list returned by
\* external_shuffle_generator::getlist is one cycle through all N indices,
\* and the walk from slot 0 finds cyclelength = N and a coverage of 100.
C1_ShuffleIsHamiltonian ==
    (gen = "shuffle" /\ N >= 3) =>
        /\ Returned => IsHamiltonian(list, N)
        /\ AfterWalk => cyclelength = N /\ p = 0
        /\ AfterReport => Is100(covered)

\* a shuffled list (not 0 -> 1 -> 2 ...) has been walked and reported
C1_Witness ==
    /\ gen = "shuffle" /\ N >= 4 /\ pc = "done"
    /\ list[0] # 1
    /\ cyclelength = N /\ Is100(covered)

C3_CoverageIffHamiltonian ==
    AfterReport => (Is100(covered) <=> IsHamiltonian(list, N))

\* C4 (as stated): on a Hamiltonian list with one entry overwritten to point
\* to itself the coverage is below 100 and cyclelength is the number of
\* indices on the chain from index 0.
C4_CorruptionDetected ==
    (AfterReport /\ IsCorrupted(list, N)) =>
        /\ ~ Is100(covered)
        /\ cyclelength = ReachSize(list, N)

\* C5: when the walk has finished, the counts of all 2N slots of strides
\* add up to cyclelength.
C5_StridesSum ==
    AfterWalk => SumRange(strides, 0, 2 * N - 1) = cyclelength

\* a walk of three or more hops in which one stride occurred twice
C5_Witness ==
    /\ pc = "report" /\ cyclelength >= 3
    /\ \E k \in 0 .. 2 * N - 1 : strides[k] >= 2

\* C6: every stride of the walk lies in -(N-1) .. N-1, the slot N + stride
\* that is counted up lies in 1 .. 2N-1, and slot 0 stays unused.
C6_StrideInRange ==
    ((pc = "walk" \/ AfterWalk) /\ cyclelength >= 1) =>
        /\ stride \in -(N - 1) .. (N - 1)
        /\ StrideSlot(N, stride) \in 1 .. 2 * N - 1
        /\ strides[0] = 0

\* the longest backward stride, from index N-1 to index 0, was recorded
C6_Witness ==
    /\ N >= 3 /\ pc \in {"walk", "report"} /\ cyclelength >= 1
    /\ stride = -(N - 1) /\ strides[1] = 1

\* C7 (as stated): for N < 3 the shuffle generator ends in a defined
\* failure: it neither returns a list, nor runs std::shuffle on an invalid
\* range, nor dies.
C7_SmallNRejected ==
    (gen = "shuffle" /\ N < 3) =>
        /\ ~ Returned
        /\ ~ (pc = "shuffle" /\ ShuffleBegin > ShuffleEnd(N))
        /\ pc \notin {"fill", "crashed"}

\* C8: the walk leaves the list as it is, and a second call that gets the
\* same list finds the same cyclelength, coverage and strides.
C8_WalkRepeatable ==
    /\ [](  (run > 1 /\ AfterReport /\ list = prev.list) =>
               /\ cyclelength = prev.cyclelength
               /\ covered = prev.covered
               /\ strides = prev.strides )
    /\ [][ (pc \in {"prep", "walk", "report", "hist", "bars"}) =>
               list' = list ]_vars

\* a second call on the same list, with a walk of two or more hops
C8_Witness ==
    /\ run = 2 /\ pc = "done" /\ list = prev.list
    /\ cyclelength >= 2

HistDone == pc = "bars" \/ (pc = "done" /\ printHist)

\* C10: the 20 lines [a[i], b[i]) are contiguous, start at -N and end at
\* N, every slot of strides is summed into exactly one line, the 20
\* amounts add up to cyclelength, and maxAmount >= 1 when the bars are
\* scaled.
C10_BucketsPartition ==
    HistDone =>
        /\ \A k \in 0 .. NumBuckets - 2 : b[k] = a[k + 1]
        /\ a[0] = -N
        /\ b[NumBuckets - 1] = N
        /\ \A j \in 0 .. 2 * N - 1 :
              Cardinality({k \in 0 .. NumBuckets - 1 :
                              a[k] + N <= j /\ j < b[k] + N}) = 1
        /\ SumRange(hist, 0, NumBuckets - 1) = cyclelength
        /\ maxAmount >= 1

\* a histogram with a line of two or more strides and one with none
C10_Witness ==
    /\ pc = "done" /\ printHist /\ N >= 3
    /\ maxAmount >= 2
    /\ \E k \in 0 .. NumBuckets - 1 : a[k] < b[k] /\ hist[k] = 0
    /\ \E k \in 0 .. NumBuckets - 1 : dots[k] = BarWidth

====
